---------------------------- MODULE Spec2Model ----------------------------
(***************************************************************************)
(* The Data Cleaner front end (frontend/src/App.js) as a state machine.    *)
(*                                                                         *)
(* The state is the state of the App component (its useState cells) plus   *)
(* what is in flight around it: the onDrop invocations waiting for an      *)
(* upload response, the clean, delete and download requests waiting for    *)
(* their response, the pending success timers, and the id the backend      *)
(* hands out next.  A handler runs atomically up to its next await; what   *)
(* it reads after the await are the values its closure captured when it    *)
(* was called, which the in-flight records carry.                          *)
(***************************************************************************)
EXTENDS Integers, Sequences, FiniteSets, TLC

VARIABLES
    uploadedFiles,          \* useState([])     App.js:33
    selectedFile,           \* useState(null)   App.js:34
    originalData,           \* useState(null)   App.js:35
    cleanedData,            \* useState(null)   App.js:36
    statistics,             \* useState(null)   App.js:37
    cleanedStatistics,      \* useState(null)   App.js:38
    isUploading,            \* useState(false)  App.js:39
    isCleaning,             \* useState(false)  App.js:40
    cleaningComplete,       \* useState(false)  App.js:41
    showOriginalExpanded,   \* useState(false)  App.js:42
    showCleanedExpanded,    \* useState(false)  App.js:43
    downloadInProgress,     \* useState({})     App.js:44
    cleaningOptions,        \* useState({...})  App.js:45-54
    lastAlert,              \* the message of the last window.alert
    drops,                  \* onDrop invocations suspended at their await
    cleanRequests,          \* POST /clean requests in flight
    deleteRequests,         \* DELETE /file/:id requests in flight
    downloadRequests,       \* GET /download/:id requests in flight
    timers,                 \* pending setTimeout(..., 3000) callbacks of cleanData
    nextId                  \* the id the backend gives the next stored file

vars == <<uploadedFiles, selectedFile, originalData, cleanedData, statistics,
          cleanedStatistics, isUploading, isCleaning, cleaningComplete,
          showOriginalExpanded, showCleanedExpanded, downloadInProgress,
          cleaningOptions, lastAlert, drops, cleanRequests,
          deleteRequests, downloadRequests, timers, nextId>>

(***************************************************************************)
(* Bounds of the model.                                                    *)
(***************************************************************************)
\* files the backend stores over a run (ids 1..MaxFiles)
MaxFiles == 2
\* files in one drop
MaxDropLen == 2
\* delete requests in flight at once
MaxDeletes == 1
\* download requests in flight at once
MaxDownloads == 2
\* success timers pending when Clean Data is clicked: fewer than MaxTimers,
\* and fewer than MaxPendingTimers where the timers are what is looked at
MaxTimers == 1
MaxPendingTimers == 2
\* rows of a table handed to renderDataTable
MaxRows == 7

(***************************************************************************)
(* Values.  JavaScript's null is a record of its own, so that it compares  *)
(* with every object of the model; an array is a record holding its rows.  *)
(***************************************************************************)
null == [null |-> TRUE]

\* extensions of the files a user drops: all four where one file is dropped,
\* one accepted and one rejected extension where several files are in play
Extensions == {"csv", "xlsx", "json", "txt"}
SomeExtensions == {"csv", "txt"}

\* what a user types into a text input
FillValues == {"", "NA"}
NewNames == {"", "x"}

\* the columns of the file the backend stores under id
Columns(id) == IF id % 2 = 1 THEN {"a"} ELSE {"b"}

\* the backend's response to POST /upload for the file stored under id
UploadResponse(id, ext) ==
    [file_info    |-> [id |-> id, file_type |-> ext],
     preview_data |-> [rows |-> <<[c \in Columns(id) |-> id]>>],
     statistics   |-> [rows |-> 1, columns |-> Cardinality(Columns(id)), of |-> id]]

\* the backend's response to POST /clean of file_id
CleanResponse(file_id, options) ==
    [preview_data |-> [rows |-> <<[c \in Columns(file_id) |-> file_id]>>, cleaned |-> file_id],
     statistics   |-> [rows |-> 1, columns |-> Cardinality(Columns(file_id)), cleaned |-> file_id]]

Range(s) == {s[i] : i \in 1..Len(s)}

RECURSIVE SeqSum(_)
SeqSum(s) == IF s = <<>> THEN 0 ELSE Head(s) + SeqSum(Tail(s))

\* s without its i-th element
RemoveAt(s, i) == SubSeq(s, 1, i - 1) \o SubSeq(s, i + 1, Len(s))

\* the sequences over S of length lo..hi
SeqsOf(S, lo, hi) == UNION {[1..n -> S] : n \in lo..hi}

(***************************************************************************)
(* Initial state: the useState initial values, nothing in flight.          *)
(***************************************************************************)
InitialCleaningOptions ==
    [remove_duplicates     |-> FALSE,
     handle_missing        |-> "none",
     fill_value            |-> "",
     column_renames        |-> <<>>,
     find_replace          |-> <<>>,
     trim_whitespace       |-> FALSE,
     data_type_conversions |-> <<>>,
     merge_files           |-> <<>>]

Init ==
    /\ uploadedFiles = <<>>
    /\ selectedFile = null
    /\ originalData = null
    /\ cleanedData = null
    /\ statistics = null
    /\ cleanedStatistics = null
    /\ isUploading = FALSE
    /\ isCleaning = FALSE
    /\ cleaningComplete = FALSE
    /\ showOriginalExpanded = FALSE
    /\ showCleanedExpanded = FALSE
    /\ downloadInProgress = <<>>
    /\ cleaningOptions = InitialCleaningOptions
    /\ lastAlert = ""
    /\ drops = <<>>
    /\ cleanRequests = <<>>
    /\ deleteRequests = {}
    /\ downloadRequests = <<>>
    /\ timers = 0
    /\ nextId = 1


(***************************************************************************)
(* JavaScript objects used as maps: {...m, [key]: value}.                  *)
(***************************************************************************)
Spread(m, key, value) ==
    [k \in DOMAIN m \cup {key} |-> IF k = key THEN value ELSE m[k]]

(***************************************************************************)
(* File upload: useDropzone and onDrop.                                    *)
(***************************************************************************)
\* the dropzone's accept option: the extensions it lets through
Accept == {"csv", "xlsx", "json"}

Accepted(ext) == ext \in Accept

\* upload requests of the running drops that have no response yet
PendingUploads == SeqSum([i \in 1..Len(drops) |-> Len(drops[i].queue)])

\* The user drops `files` (extensions).  The dropzone hands the accepted
\* ones to onDrop, which sets isUploading, posts the first file and awaits;
\* with no accepted file the loop is empty and isUploading is false again.
\* `first` is uploadedFiles.length === 0 as the callback closed over it;
\* `stored` counts the files of the drop stored so far (only the properties
\* read it).
\* The backend stores at most MaxFiles files over a run: a drop waits while
\* the files stored and those being uploaded leave no room for it.
Drop(files) ==
    LET acceptedFiles == SelectSeq(files, Accepted)
        fileRejections == SelectSeq(files, LAMBDA e : ~Accepted(e))
    IN  /\ (nextId - 1) + PendingUploads + Len(acceptedFiles) <= MaxFiles
        /\ IF acceptedFiles = <<>>
             THEN /\ isUploading' = FALSE
                  /\ drops' = drops
             ELSE /\ isUploading' = TRUE
                  /\ drops' = Append(drops, [queue |-> acceptedFiles,
                                             fileRejections |-> fileRejections,
                                             first |-> (Len(uploadedFiles) = 0),
                                             stored |-> 0])
        /\ UNCHANGED <<uploadedFiles, selectedFile, originalData, cleanedData,
                       statistics, cleanedStatistics, isCleaning, cleaningComplete,
                       showOriginalExpanded, showCleanedExpanded, downloadInProgress,
                       cleaningOptions, cleanRequests, deleteRequests,
                       downloadRequests, timers, nextId, lastAlert>>

\* the loop of drop d after the response for the head of its queue: the next
\* file is posted, or the loop ends and isUploading is set to false
DropContinues(d, stored) ==
    IF Len(drops[d].queue) > 1
      THEN /\ drops' = [drops EXCEPT ![d].queue = Tail(@),
                                     ![d].stored = @ + stored]
           /\ isUploading' = isUploading
      ELSE /\ drops' = RemoveAt(drops, d)
           /\ isUploading' = FALSE

\* the upload of the head of drop d succeeds
UploadSuccess(d) ==
    /\ d \in 1..Len(drops)
    /\ LET newFile == UploadResponse(nextId, Head(drops[d].queue))
       IN  /\ uploadedFiles' = Append(uploadedFiles, newFile)
           /\ IF drops[d].first
                THEN /\ selectedFile' = newFile
                     /\ originalData' = newFile.preview_data
                     /\ statistics' = newFile.statistics
                ELSE UNCHANGED <<selectedFile, originalData, statistics>>
    /\ nextId' = nextId + 1
    /\ DropContinues(d, 1)
    /\ UNCHANGED <<cleanedData, cleanedStatistics, isCleaning, cleaningComplete,
                   showOriginalExpanded, showCleanedExpanded, downloadInProgress,
                   cleaningOptions, cleanRequests, deleteRequests,
                   downloadRequests, timers, lastAlert>>

\* UploadFailure with the error ending the loop of the drop
UploadFailure_AbortsDrop(d) ==
    /\ d \in 1..Len(drops)
    /\ drops' = RemoveAt(drops, d)
    /\ isUploading' = FALSE
    /\ lastAlert' = "Upload failed"
    /\ UNCHANGED <<uploadedFiles, selectedFile, originalData, cleanedData,
                   statistics, cleanedStatistics, isCleaning, cleaningComplete,
                   showOriginalExpanded, showCleanedExpanded, downloadInProgress,
                   cleaningOptions, cleanRequests, deleteRequests,
                   downloadRequests, timers, nextId>>

\* the upload of the head of drop d fails: an alert, and the loop goes on
UploadFailure(d) ==
    /\ d \in 1..Len(drops)
    /\ DropContinues(d, 0)
    /\ lastAlert' = "Upload failed"
    /\ UNCHANGED <<uploadedFiles, selectedFile, originalData, cleanedData,
                   statistics, cleanedStatistics, isCleaning, cleaningComplete,
                   showOriginalExpanded, showCleanedExpanded, downloadInProgress,
                   cleaningOptions, cleanRequests, deleteRequests,
                   downloadRequests, timers, nextId>>

(***************************************************************************)
(* Selecting a file: the file-item onClick.                                *)
(***************************************************************************)
\* SelectFile with the preview and the statistics of the file left unset
SelectFile_KeepsPreview(i) ==
    /\ i \in 1..Len(uploadedFiles)
    /\ selectedFile' = uploadedFiles[i]
    /\ cleanedData' = null
    /\ cleanedStatistics' = null
    /\ showOriginalExpanded' = FALSE
    /\ showCleanedExpanded' = FALSE
    /\ cleaningComplete' = FALSE
    /\ UNCHANGED <<uploadedFiles, originalData, statistics, isUploading,
                   isCleaning, downloadInProgress,
                   cleaningOptions, drops, cleanRequests,
                   deleteRequests, downloadRequests, timers, nextId, lastAlert>>

SelectFile(i) ==
    /\ i \in 1..Len(uploadedFiles)
    /\ LET file == uploadedFiles[i]
       IN  /\ selectedFile' = file
           /\ originalData' = file.preview_data
           /\ statistics' = file.statistics
    /\ cleanedData' = null
    /\ cleanedStatistics' = null
    /\ showOriginalExpanded' = FALSE
    /\ showCleanedExpanded' = FALSE
    /\ cleaningComplete' = FALSE
    /\ UNCHANGED <<uploadedFiles, isUploading, isCleaning, downloadInProgress,
                   cleaningOptions, drops, cleanRequests,
                   deleteRequests, downloadRequests, timers, nextId, lastAlert>>

(***************************************************************************)
(* cleanData.  The Clean Data button is rendered while a file is selected  *)
(* and is disabled while isCleaning.                                       *)
(***************************************************************************)
\* the request cleanData posts: the form data file_id and options
CleanRequest(file, options) ==
    [file_id |-> file.file_info.id, options |-> options]

\* cleanData with the button left enabled while isCleaning
cleanData_NotDisabled ==
    /\ selectedFile # null
    /\ isCleaning' = TRUE
    /\ cleaningComplete' = FALSE
    /\ cleanRequests' = Append(cleanRequests,
                               [request |-> CleanRequest(selectedFile, cleaningOptions),
                                sent    |-> [cleanedData |-> cleanedData,
                                             cleanedStatistics |-> cleanedStatistics]])
    /\ UNCHANGED <<uploadedFiles, selectedFile, originalData, cleanedData,
                   statistics, cleanedStatistics, isUploading,
                   showOriginalExpanded, showCleanedExpanded, downloadInProgress,
                   cleaningOptions, drops, deleteRequests,
                   downloadRequests, timers, nextId, lastAlert>>

\* The click: up to the await.  `sent` notes what was shown as the cleaned
\* result when the request was sent; only the properties read it.
cleanData ==
    /\ selectedFile # null
    /\ ~isCleaning
    /\ isCleaning' = TRUE
    /\ cleaningComplete' = FALSE
    /\ cleanRequests' = Append(cleanRequests,
                               [request |-> CleanRequest(selectedFile, cleaningOptions),
                                sent    |-> [cleanedData |-> cleanedData,
                                             cleanedStatistics |-> cleanedStatistics]])
    /\ UNCHANGED <<uploadedFiles, selectedFile, originalData, cleanedData,
                   statistics, cleanedStatistics, isUploading,
                   showOriginalExpanded, showCleanedExpanded, downloadInProgress,
                   cleaningOptions, drops, deleteRequests,
                   downloadRequests, timers, nextId, lastAlert>>

\* cleanDataSuccess with the result written to the original preview as well
cleanDataSuccess_OverwritesOriginal(r) ==
    /\ r \in 1..Len(cleanRequests)
    /\ LET result == CleanResponse(cleanRequests[r].request.file_id,
                                   cleanRequests[r].request.options)
       IN  /\ cleanedData' = result.preview_data
           /\ cleanedStatistics' = result.statistics
           /\ originalData' = result.preview_data
           /\ statistics' = result.statistics
    /\ cleaningComplete' = TRUE
    /\ timers' = timers + 1
    /\ isCleaning' = FALSE
    /\ cleanRequests' = RemoveAt(cleanRequests, r)
    /\ UNCHANGED <<uploadedFiles, selectedFile,
                   isUploading, showOriginalExpanded, showCleanedExpanded,
                   downloadInProgress, cleaningOptions, drops,
                   deleteRequests, downloadRequests, nextId, lastAlert>>

\* the response arrives: the result is shown and the success timer is set
cleanDataSuccess(r) ==
    /\ r \in 1..Len(cleanRequests)
    /\ LET result == CleanResponse(cleanRequests[r].request.file_id,
                                   cleanRequests[r].request.options)
       IN  /\ cleanedData' = result.preview_data
           /\ cleanedStatistics' = result.statistics
    /\ cleaningComplete' = TRUE
    /\ timers' = timers + 1
    /\ isCleaning' = FALSE
    /\ cleanRequests' = RemoveAt(cleanRequests, r)
    /\ UNCHANGED <<uploadedFiles, selectedFile, originalData, statistics,
                   isUploading, showOriginalExpanded, showCleanedExpanded,
                   downloadInProgress, cleaningOptions, drops,
                   deleteRequests, downloadRequests, nextId, lastAlert>>

\* cleanDataFailure with the shown result cleared on the error
cleanDataFailure_ClearsResult(r) ==
    /\ r \in 1..Len(cleanRequests)
    /\ isCleaning' = FALSE
    /\ cleanedData' = null
    /\ cleanedStatistics' = null
    /\ cleanRequests' = RemoveAt(cleanRequests, r)
    /\ lastAlert' = "Cleaning failed"
    /\ UNCHANGED <<uploadedFiles, selectedFile, originalData,
                   statistics, isUploading, cleaningComplete,
                   showOriginalExpanded, showCleanedExpanded, downloadInProgress,
                   cleaningOptions, drops, deleteRequests,
                   downloadRequests, timers, nextId>>

\* the request fails: an alert
cleanDataFailure(r) ==
    /\ r \in 1..Len(cleanRequests)
    /\ isCleaning' = FALSE
    /\ cleanRequests' = RemoveAt(cleanRequests, r)
    /\ lastAlert' = "Cleaning failed"
    /\ UNCHANGED <<uploadedFiles, selectedFile, originalData, cleanedData,
                   statistics, cleanedStatistics, isUploading, cleaningComplete,
                   showOriginalExpanded, showCleanedExpanded, downloadInProgress,
                   cleaningOptions, drops, deleteRequests,
                   downloadRequests, timers, nextId>>

\* a success timer of cleanData fires
TimerFires ==
    /\ timers > 0
    /\ timers' = timers - 1
    /\ cleaningComplete' = FALSE
    /\ UNCHANGED <<uploadedFiles, selectedFile, originalData, cleanedData,
                   statistics, cleanedStatistics, isUploading, isCleaning,
                   showOriginalExpanded, showCleanedExpanded, downloadInProgress,
                   cleaningOptions, drops, cleanRequests,
                   deleteRequests, downloadRequests, nextId, lastAlert>>

(***************************************************************************)
(* deleteFile.  The continuation after the await reads selectedFile as the *)
(* click's render had it.  Two equal requests in flight act as one: the    *)
(* continuation is idempotent.                                             *)
(***************************************************************************)
deleteFile(i) ==
    /\ i \in 1..Len(uploadedFiles)
    /\ Cardinality(deleteRequests) < MaxDeletes
    /\ deleteRequests' = deleteRequests \cup
           {[fileId |-> uploadedFiles[i].file_info.id, selectedFile |-> selectedFile]}
    /\ UNCHANGED <<uploadedFiles, selectedFile, originalData, cleanedData,
                   statistics, cleanedStatistics, isUploading, isCleaning,
                   cleaningComplete, showOriginalExpanded, showCleanedExpanded,
                   downloadInProgress, cleaningOptions, drops,
                   cleanRequests, downloadRequests, timers, nextId, lastAlert>>

deleteFileSuccess(req) ==
    /\ req \in deleteRequests
    /\ uploadedFiles' = SelectSeq(uploadedFiles,
                                  LAMBDA f : f.file_info.id # req.fileId)
    /\ IF req.selectedFile # null /\ req.selectedFile.file_info.id = req.fileId
         THEN /\ selectedFile' = null
              /\ originalData' = null
              /\ cleanedData' = null
              /\ statistics' = null
              /\ cleanedStatistics' = null
              /\ cleaningComplete' = FALSE
         ELSE UNCHANGED <<selectedFile, originalData, cleanedData, statistics,
                          cleanedStatistics, cleaningComplete>>
    /\ deleteRequests' = deleteRequests \ {req}
    /\ UNCHANGED <<isUploading, isCleaning, showOriginalExpanded,
                   showCleanedExpanded, downloadInProgress, cleaningOptions,
                   drops, cleanRequests, downloadRequests,
                   timers, nextId, lastAlert>>

\* deleteFileFailure with the file removed from the list all the same
deleteFileFailure_RemovesFile(req) ==
    /\ req \in deleteRequests
    /\ uploadedFiles' = SelectSeq(uploadedFiles,
                                  LAMBDA f : f.file_info.id # req.fileId)
    /\ deleteRequests' = deleteRequests \ {req}
    /\ lastAlert' = "Delete operation failed"
    /\ UNCHANGED <<selectedFile, originalData, cleanedData,
                   statistics, cleanedStatistics, isUploading, isCleaning,
                   cleaningComplete, showOriginalExpanded, showCleanedExpanded,
                   downloadInProgress, cleaningOptions, drops,
                   cleanRequests, downloadRequests, timers, nextId>>

\* the request fails: an alert
deleteFileFailure(req) ==
    /\ req \in deleteRequests
    /\ deleteRequests' = deleteRequests \ {req}
    /\ lastAlert' = "Delete operation failed"
    /\ UNCHANGED <<uploadedFiles, selectedFile, originalData, cleanedData,
                   statistics, cleanedStatistics, isUploading, isCleaning,
                   cleaningComplete, showOriginalExpanded, showCleanedExpanded,
                   downloadInProgress, cleaningOptions, drops,
                   cleanRequests, downloadRequests, timers, nextId>>

(***************************************************************************)
(* Specification of uploads, selection, cleaning and deletion.             *)
(***************************************************************************)
DropFiles == \E files \in SeqsOf(SomeExtensions, 1, MaxDropLen) : Drop(files)
UploadSucceeds == \E d \in 1..Len(drops) : UploadSuccess(d)
UploadFails == \E d \in 1..Len(drops) : UploadFailure(d)
ClickFile == \E i \in 1..Len(uploadedFiles) : SelectFile(i)
CleanSucceeds == \E r \in 1..Len(cleanRequests) : cleanDataSuccess(r)
CleanFails == \E r \in 1..Len(cleanRequests) : cleanDataFailure(r)
ClickDelete == \E i \in 1..Len(uploadedFiles) : deleteFile(i)
DeleteSucceeds == \E req \in deleteRequests : deleteFileSuccess(req)
DeleteFails == \E req \in deleteRequests : deleteFileFailure(req)

\* the user clicks Clean Data while fewer than MaxTimers success timers are
\* pending
ClickClean == timers < MaxTimers /\ cleanData

Next ==
    \/ DropFiles
    \/ UploadSucceeds
    \/ UploadFails
    \/ ClickFile
    \/ ClickClean
    \/ CleanSucceeds
    \/ CleanFails
    \/ TimerFires
    \/ ClickDelete
    \/ DeleteSucceeds
    \/ DeleteFails

Spec == Init /\ [][Next]_vars


(***************************************************************************)
(* The cleaning option controls.  The options card is rendered while a     *)
(* file is selected; the fill value input while handle_missing is 'fill';  *)
(* one rename input per key of the first row of originalData.              *)
(***************************************************************************)
\* updateCleaningOption spreading the initial options instead of prev
updateCleaningOption_FromInitial(key, value) ==
    /\ cleaningOptions' = Spread(InitialCleaningOptions, key, value)
    /\ UNCHANGED <<uploadedFiles, selectedFile, originalData, cleanedData,
                   statistics, cleanedStatistics, isUploading, isCleaning,
                   cleaningComplete, showOriginalExpanded, showCleanedExpanded,
                   downloadInProgress, drops, cleanRequests,
                   deleteRequests, downloadRequests, timers, nextId, lastAlert>>

updateCleaningOption(key, value) ==
    /\ cleaningOptions' = Spread(cleaningOptions, key, value)
    /\ UNCHANGED <<uploadedFiles, selectedFile, originalData, cleanedData,
                   statistics, cleanedStatistics, isUploading, isCleaning,
                   cleaningComplete, showOriginalExpanded, showCleanedExpanded,
                   downloadInProgress, drops, cleanRequests,
                   deleteRequests, downloadRequests, timers, nextId, lastAlert>>

updateColumnRename(oldName, newName) ==
    /\ cleaningOptions' =
           Spread(cleaningOptions, "column_renames",
                  Spread(cleaningOptions.column_renames, oldName, newName))
    /\ UNCHANGED <<uploadedFiles, selectedFile, originalData, cleanedData,
                   statistics, cleanedStatistics, isUploading, isCleaning,
                   cleaningComplete, showOriginalExpanded, showCleanedExpanded,
                   downloadInProgress, drops, cleanRequests,
                   deleteRequests, downloadRequests, timers, nextId, lastAlert>>

\* the values of the <option>s of the missing-values select
HandleMissingValues == {"none", "drop", "fill"}

\* Object.keys(originalData[0] || {}) where the rename inputs are rendered
RenameInputs ==
    IF originalData # null /\ Len(originalData.rows) > 0
      THEN DOMAIN originalData.rows[1]
      ELSE {}

ChangeRemoveDuplicates ==
    /\ selectedFile # null
    /\ \E checked \in BOOLEAN : updateCleaningOption("remove_duplicates", checked)

ChangeHandleMissing ==
    /\ selectedFile # null
    /\ \E value \in HandleMissingValues : updateCleaningOption("handle_missing", value)

ChangeFillValue ==
    /\ selectedFile # null
    /\ cleaningOptions.handle_missing = "fill"
    /\ \E value \in FillValues : updateCleaningOption("fill_value", value)

ChangeTrimWhitespace ==
    /\ selectedFile # null
    /\ \E checked \in BOOLEAN : updateCleaningOption("trim_whitespace", checked)

\* value={cleaningOptions.column_renames[column] || ''} of a rename input
RenameInputValue(column) ==
    IF column \in DOMAIN cleaningOptions.column_renames
         /\ cleaningOptions.column_renames[column] # ""
      THEN cleaningOptions.column_renames[column]
      ELSE ""

\* the user edits a rename input: onChange comes with a text other than the
\* one the input shows
ChangeColumnRename ==
    /\ selectedFile # null
    /\ \E column \in RenameInputs, value \in NewNames :
           /\ value # RenameInputValue(column)
           /\ updateColumnRename(column, value)

(***************************************************************************)
(* downloadFile.  The Download Original button of a file item is never     *)
(* disabled; a download button of the cleaned data card is disabled while  *)
(* downloadInProgress has its key true.                                    *)
(***************************************************************************)
\* `${fileId}-${format}-${isOriginal}`
downloadKey(fileId, format, isOriginal) == <<fileId, format, isOriginal>>

\* axios.get(`${API}/download/${fileId}?format=${format}`, {responseType: 'blob'})
DownloadRequest(fileId, format, isOriginal) ==
    [path |-> <<"download", fileId>>, format |-> format, responseType |-> "blob"]

\* the call: up to the await (at most MaxDownloads requests are in flight)
downloadFile(fileId, format, isOriginal) ==
    /\ Len(downloadRequests) < MaxDownloads
    /\ downloadInProgress' =
           Spread(downloadInProgress, downloadKey(fileId, format, isOriginal), TRUE)
    /\ downloadRequests' =
           Append(downloadRequests,
                  [downloadKey |-> downloadKey(fileId, format, isOriginal),
                   request     |-> DownloadRequest(fileId, format, isOriginal)])
    /\ UNCHANGED <<uploadedFiles, selectedFile, originalData, cleanedData,
                   statistics, cleanedStatistics, isUploading, isCleaning,
                   cleaningComplete, showOriginalExpanded, showCleanedExpanded,
                   cleaningOptions, drops, cleanRequests,
                   deleteRequests, timers, nextId, lastAlert>>

\* the finally block: the key is cleared and the request is over
downloadFileFinally(i) ==
    /\ downloadInProgress' =
           Spread(downloadInProgress, downloadRequests[i].downloadKey, FALSE)
    /\ downloadRequests' = RemoveAt(downloadRequests, i)

\* the response arrives: the blob is saved under original_data or cleaned_data
downloadFileSuccess(i) ==
    /\ i \in 1..Len(downloadRequests)
    /\ downloadFileFinally(i)
    /\ UNCHANGED <<uploadedFiles, selectedFile, originalData, cleanedData,
                   statistics, cleanedStatistics, isUploading, isCleaning,
                   cleaningComplete, showOriginalExpanded, showCleanedExpanded,
                   cleaningOptions, lastAlert, drops, cleanRequests,
                   deleteRequests, timers, nextId>>

\* the request fails: an alert
downloadFileFailure(i) ==
    /\ i \in 1..Len(downloadRequests)
    /\ lastAlert' = "Download failed"
    /\ downloadFileFinally(i)
    /\ UNCHANGED <<uploadedFiles, selectedFile, originalData, cleanedData,
                   statistics, cleanedStatistics, isUploading, isCleaning,
                   cleaningComplete, showOriginalExpanded, showCleanedExpanded,
                   cleaningOptions, drops, cleanRequests,
                   deleteRequests, timers, nextId>>

\* the formats of the download buttons of the cleaned data card
CleanedFormats == {"csv", "xlsx", "json"}

\* downloadInProgress[downloadKey] as renderDownloadButton reads it
isLoading(key) == key \in DOMAIN downloadInProgress /\ downloadInProgress[key]

ClickDownloadOriginal ==
    \E i \in 1..Len(uploadedFiles) :
        downloadFile(uploadedFiles[i].file_info.id,
                     uploadedFiles[i].file_info.file_type, TRUE)

ClickDownloadCleaned ==
    /\ selectedFile # null
    /\ cleanedData # null
    /\ \E format \in CleanedFormats :
           /\ ~isLoading(downloadKey(selectedFile.file_info.id, format, FALSE))
           /\ downloadFile(selectedFile.file_info.id, format, FALSE)

DownloadSucceeds == \E i \in 1..Len(downloadRequests) : downloadFileSuccess(i)
DownloadFails == \E i \in 1..Len(downloadRequests) : downloadFileFailure(i)

(***************************************************************************)
(* A session with a single file: the user drops one file at a time until   *)
(* one is stored.                                                          *)
(***************************************************************************)
DropOneFile ==
    /\ nextId = 1
    /\ drops = <<>>
    /\ \E ext \in Extensions : Drop(<<ext>>)

\* the cleaning options of a single file
NextOptions ==
    \/ DropOneFile
    \/ UploadSucceeds
    \/ ClickClean
    \/ CleanSucceeds
    \/ CleanFails
    \/ TimerFires
    \/ ChangeRemoveDuplicates
    \/ ChangeHandleMissing
    \/ ChangeFillValue
    \/ ChangeTrimWhitespace
    \/ ChangeColumnRename

SpecOptions == Init /\ [][NextOptions]_vars

\* The same under fairness.  A request gets its response or its error and a
\* timer fires (weak fairness of the handling); the user is taken to be
\* persistent: a file is dropped until one is stored, Clean Data is clicked
\* again and again.  The assumptions on the user only remove behaviours, so
\* what fails under them fails for a user who tries everything.
SpecOptionsFair ==
    /\ SpecOptions
    /\ WF_vars(CleanSucceeds \/ CleanFails)
    /\ WF_vars(TimerFires)
    /\ SF_vars(DropOneFile)
    /\ SF_vars(UploadSucceeds)
    /\ SF_vars(ClickClean)

\* the downloads of a single file
NextDownload ==
    \/ DropOneFile
    \/ UploadSucceeds
    \/ UploadFails
    \/ ClickFile
    \/ ClickClean
    \/ CleanSucceeds
    \/ CleanFails
    \/ TimerFires
    \/ ClickDownloadOriginal
    \/ ClickDownloadCleaned
    \/ DownloadSucceeds
    \/ DownloadFails

SpecDownload == Init /\ [][NextDownload]_vars

\* the user clicks Clean Data again while success timers are pending
ClickCleanAgain == timers < MaxPendingTimers /\ cleanData

\* the success indication of a single file: cleans that follow one another
\* within the delay of the timers, selections and deletes
NextTimers ==
    \/ DropOneFile
    \/ UploadSucceeds
    \/ ClickFile
    \/ ClickCleanAgain
    \/ CleanSucceeds
    \/ CleanFails
    \/ TimerFires
    \/ ClickDelete
    \/ DeleteSucceeds
    \/ DeleteFails

SpecTimers == Init /\ [][NextTimers]_vars

(***************************************************************************)
(* renderDataTable and the two expand/collapse controls.  What the         *)
(* function renders is a record: the header's columns, the rows of the     *)
(* body, and the control under the table (null when there is none).        *)
(***************************************************************************)
\* the number of rows shown until the table is expanded
PreviewRows == 5

\* slice with its end taken as inclusive
slice_InclusiveEnd(rows, from, to) ==
    SubSeq(rows, from + 1, IF to + 1 < Len(rows) THEN to + 1 ELSE Len(rows))

\* Array.prototype.slice(from, to) of a sequence (from and to count from 0)
slice(rows, from, to) ==
    SubSeq(rows, from + 1, IF to < Len(rows) THEN to ELSE Len(rows))

renderDataTable(data, isExpanded) ==
    IF data = null \/ Len(data.rows) = 0
      THEN [columns |-> {}, displayData |-> <<>>, control |-> null]
      ELSE LET displayData == IF isExpanded THEN data.rows
                                            ELSE slice(data.rows, 0, PreviewRows)
               hasMoreRows == Len(data.rows) > PreviewRows
           IN  [columns     |-> DOMAIN data.rows[1],
                displayData |-> displayData,
                control     |->
                    IF hasMoreRows
                      THEN IF isExpanded
                             THEN [text |-> "Show Less"]
                             ELSE [text |-> "View More",
                                   more |-> Len(data.rows) - PreviewRows]
                      ELSE null]

\* the original data card and the cleaned data card, rendered while a file
\* is selected and their data is not null
OriginalDataCard == renderDataTable(originalData, showOriginalExpanded)
CleanedDataCard == renderDataTable(cleanedData, showCleanedExpanded)

\* toggleExpanded of the original data card
ToggleOriginalExpanded ==
    /\ selectedFile # null
    /\ originalData # null
    /\ OriginalDataCard.control # null
    /\ showOriginalExpanded' = ~showOriginalExpanded
    /\ UNCHANGED <<uploadedFiles, selectedFile, originalData, cleanedData,
                   statistics, cleanedStatistics, isUploading, isCleaning,
                   cleaningComplete, showCleanedExpanded, downloadInProgress,
                   cleaningOptions, lastAlert, drops, cleanRequests,
                   deleteRequests, downloadRequests, timers, nextId>>

\* toggleExpanded of the cleaned data card
ToggleCleanedExpanded ==
    /\ selectedFile # null
    /\ cleanedData # null
    /\ CleanedDataCard.control # null
    /\ showCleanedExpanded' = ~showCleanedExpanded
    /\ UNCHANGED <<uploadedFiles, selectedFile, originalData, cleanedData,
                   statistics, cleanedStatistics, isUploading, isCleaning,
                   cleaningComplete, showOriginalExpanded, downloadInProgress,
                   cleaningOptions, lastAlert, drops, cleanRequests,
                   deleteRequests, downloadRequests, timers, nextId>>

\* the rows a preview may hold
PreviewRowValues == {[a |-> 1], [a |-> 2]}

\* the preview tables of 0..MaxRows rows
PreviewTables == {[rows |-> rows] : rows \in SeqsOf(PreviewRowValues, 0, MaxRows)}

\* The states in which the tables are rendered: a file whose preview is any
\* of the tables is stored and selected, and either nothing is cleaned yet
\* or a clean has returned the same rows.
InitRender ==
    /\ \E data \in PreviewTables :
        LET file == [file_info    |-> [id |-> 1, file_type |-> "csv"],
                     preview_data |-> data,
                     statistics   |-> [rows |-> Len(data.rows), columns |-> 1, of |-> 1]]
        IN  /\ uploadedFiles = <<file>>
            /\ selectedFile = file
            /\ originalData = file.preview_data
            /\ statistics = file.statistics
            /\ \/ cleanedData = null /\ cleanedStatistics = null
               \/ /\ cleanedData = [rows |-> data.rows, cleaned |-> 1]
                  /\ cleanedStatistics =
                         [rows |-> Len(data.rows), columns |-> 1, cleaned |-> 1]
    /\ isUploading = FALSE
    /\ isCleaning = FALSE
    /\ cleaningComplete = FALSE
    /\ showOriginalExpanded = FALSE
    /\ showCleanedExpanded = FALSE
    /\ downloadInProgress = <<>>
    /\ cleaningOptions = InitialCleaningOptions
    /\ lastAlert = ""
    /\ drops = <<>>
    /\ cleanRequests = <<>>
    /\ deleteRequests = {}
    /\ downloadRequests = <<>>
    /\ timers = 0
    /\ nextId = 2

NextRender ==
    \/ ToggleOriginalExpanded
    \/ ToggleCleanedExpanded
    \/ ClickFile

SpecRender == InitRender /\ [][NextRender]_vars

(***************************************************************************)
(*                              Properties                                 *)
(***************************************************************************)

\* C1: every download request carries the original-vs-cleaned selection:
\* two downloads in flight for the same file id and the same format, one
\* started with isOriginal = true and one with isOriginal = false, are
\* different requests to the backend.
C1_DownloadRequestCarriesSelection ==
    \A i, j \in 1..Len(downloadRequests) :
        LET a == downloadRequests[i]
            b == downloadRequests[j]
        IN  (/\ a.downloadKey[1] = b.downloadKey[1]
             /\ a.downloadKey[2] = b.downloadKey[2]
             /\ a.downloadKey[3] # b.downloadKey[3])
            => a.request # b.request

\* C2: a clean that races a delete of the same file leaves no cleaned result
\* for the deleted id: cleanedData is null whenever selectedFile is null.
C2_NoCleanedDataWithoutSelectedFile ==
    selectedFile = null => (cleanedData = null /\ cleanedStatistics = null)

\* C3: delete removes the file everywhere: selectedFile is null or one of
\* the files in uploadedFiles.
C3_SelectedFileIsUploaded ==
    selectedFile = null \/ selectedFile \in Range(uploadedFiles)

\* C4: a clean does not alter the original: the call of cleanData and the
\* handling of its response or of its error leave originalData, statistics,
\* selectedFile and uploadedFiles unchanged, and the handling of a response
\* writes only cleanedData, cleanedStatistics, isCleaning and
\* cleaningComplete of the component's state.
C4_CleanLeavesOriginal ==
    [][ /\ (cleanData \/ CleanSucceeds \/ CleanFails)
           => UNCHANGED <<originalData, statistics, selectedFile, uploadedFiles>>
        /\ CleanSucceeds
           => UNCHANGED <<isUploading, showOriginalExpanded, showCleanedExpanded,
                          downloadInProgress, cleaningOptions>> ]_vars

\* reached: a clean has succeeded for the selected file, whose original
\* preview is still shown
C4_Witness ==
    /\ selectedFile # null
    /\ cleanedData # null
    /\ cleaningComplete
    /\ ~isCleaning
    /\ originalData = selectedFile.preview_data
    /\ statistics = selectedFile.statistics

\* C5 as stated: when the clean request fails, cleanedData and
\* cleanedStatistics have the values they had when the request was sent,
\* and cleaningComplete is false.
C5_FailedCleanKeepsSentResult ==
    [][ \A r \in 1..Len(cleanRequests) :
            cleanDataFailure(r)
            => /\ cleanedData' = cleanRequests[r].sent.cleanedData
               /\ cleanedStatistics' = cleanRequests[r].sent.cleanedStatistics
               /\ cleaningComplete' = FALSE ]_vars

\* C5 amended: the handling of a failed clean request writes neither
\* cleanedData nor cleanedStatistics, so each has the value it had when the
\* request was sent or is null (a file selection or the delete of the
\* selected file cleared it meanwhile), and cleaningComplete is false.
C5_FailedCleanWritesNoResult ==
    [][ \A r \in 1..Len(cleanRequests) :
            cleanDataFailure(r)
            => /\ cleanedData' = cleanedData
               /\ cleanedStatistics' = cleanedStatistics
               /\ cleanedData' \in {cleanRequests[r].sent.cleanedData, null}
               /\ cleanedStatistics' \in {cleanRequests[r].sent.cleanedStatistics, null}
               /\ cleaningComplete' = FALSE ]_vars

\* reached: a clean has just failed and the result of an earlier clean is
\* still shown
C5_Witness ==
    /\ lastAlert = "Cleaning failed"
    /\ ~isCleaning
    /\ cleanRequests = <<>>
    /\ cleanedData # null
    /\ cleanedStatistics # null
    /\ ~cleaningComplete

\* C6: inconsistent cleaning options are rejected up front: no clean request
\* is sent with handle_missing 'fill' and an empty fill_value.
C6_InconsistentOptionsNotSent ==
    \A r \in 1..Len(cleanRequests) :
        ~ (/\ cleanRequests[r].request.options.handle_missing = "fill"
           /\ cleanRequests[r].request.options.fill_value = "")

Min(a, b) == IF a < b THEN a ELSE b

\* what C7 says of one rendered table
ShowsPreview(data, isExpanded) ==
    LET rendered == renderDataTable(data, isExpanded)
        n        == IF data = null THEN 0 ELSE Len(data.rows)
        shown    == IF isExpanded THEN n ELSE Min(5, n)
    IN  /\ Len(rendered.displayData) = shown
        /\ \A i \in 1..shown : rendered.displayData[i] = data.rows[i]
        /\ (rendered.control # null) <=> (n > 5)
        /\ (rendered.control # null /\ ~isExpanded)
               => rendered.control.more = n - 5
        /\ (n = 0) => rendered.displayData = <<>>

\* C7: for a table of n rows renderDataTable displays the first min(5, n)
\* rows in their order when not expanded and all n rows in order when
\* expanded; the expand/collapse control is present exactly when n > 5 and,
\* offering to expand, announces n - 5 further rows; for null or empty data
\* no row is displayed.
C7_PreviewShowsFiveRowsUntilExpanded ==
    /\ ShowsPreview(originalData, showOriginalExpanded)
    /\ ShowsPreview(cleanedData, showCleanedExpanded)

\* reached: a table of more than 5 rows is shown collapsed in one card and
\* expanded in the other
C7_Witness ==
    /\ originalData # null
    /\ Len(originalData.rows) > 5
    /\ ~showOriginalExpanded
    /\ cleanedData # null
    /\ showCleanedExpanded
    /\ Len(CleanedDataCard.displayData) > 5
    /\ Len(OriginalDataCard.displayData) = 5

\* a clean request in flight whose option `key` is not empty
SendsNonEmpty(key) ==
    \E r \in 1..Len(cleanRequests) : cleanRequests[r].request.options[key] # <<>>

\* C8: find & replace, data type conversion and file merging can be
\* configured: for each of find_replace, data_type_conversions and
\* merge_files the user gets to a clean request in which it is not empty.
C8_OptionsCanBeConfigured ==
    /\ <>SendsNonEmpty("find_replace")
    /\ <>SendsNonEmpty("data_type_conversions")
    /\ <>SendsNonEmpty("merge_files")

\* what holds instead: the three options are empty in cleaningOptions and in
\* every clean request
C8_OptionsStayEmpty ==
    /\ cleaningOptions.find_replace = <<>>
    /\ cleaningOptions.data_type_conversions = <<>>
    /\ cleaningOptions.merge_files = <<>>
    /\ ~SendsNonEmpty("find_replace")
    /\ ~SendsNonEmpty("data_type_conversions")
    /\ ~SendsNonEmpty("merge_files")

\* the file types the README documents
DocumentedExtensions == {"csv", "xlsx", "json", "txt"}

\* C9: a dropped file with a documented extension is accepted by the
\* dropzone: no drop has such a file among its rejections.
C9_DocumentedTypesAccepted ==
    \A d \in 1..Len(drops) :
        \A i \in 1..Len(drops[d].fileRejections) :
            drops[d].fileRejections[i] \notin DocumentedExtensions

\* the declared keys of CleaningOptions
OptionKeys ==
    {"remove_duplicates", "handle_missing", "fill_value", "column_renames",
     "find_replace", "trim_whitespace", "data_type_conversions", "merge_files"}

HasDeclaredShape(options) ==
    /\ DOMAIN options = OptionKeys
    /\ options.remove_duplicates \in BOOLEAN
    /\ options.trim_whitespace \in BOOLEAN
    /\ options.handle_missing \in {"none", "drop", "fill"}

\* C10: cleaningOptions, and the options of every clean request, have
\* exactly the eight declared keys, booleans for remove_duplicates and
\* trim_whitespace and one of 'none', 'drop', 'fill' for handle_missing; and
\* a step that updates one option leaves every other option unchanged.
C10_CleaningOptionsKeepShape ==
    /\ [] (/\ HasDeclaredShape(cleaningOptions)
           /\ \A r \in 1..Len(cleanRequests) :
                  HasDeclaredShape(cleanRequests[r].request.options))
    /\ [][ \A j, k \in OptionKeys :
               (/\ cleaningOptions'[j] # cleaningOptions[j]
                /\ cleaningOptions'[k] # cleaningOptions[k]) => j = k ]_vars

\* reached: several options have been updated and a clean request carrying
\* them is in flight
C10_Witness ==
    /\ cleaningOptions.remove_duplicates
    /\ cleaningOptions.trim_whitespace
    /\ cleaningOptions.handle_missing = "fill"
    /\ cleaningOptions.fill_value = "NA"
    /\ cleaningOptions.column_renames # <<>>
    /\ cleanRequests # <<>>
    /\ cleanRequests[1].request.options = cleaningOptions

\* C11: the cleaned result belongs to the selected file: whenever
\* cleanedData is not null a file is selected, and cleanedData and
\* cleanedStatistics are the response to a clean request sent for its id.
C11_CleanedResultOfSelectedFile ==
    cleanedData # null
    => /\ selectedFile # null
       /\ cleanedData.cleaned = selectedFile.file_info.id
       /\ cleanedStatistics # null
       /\ cleanedStatistics.cleaned = selectedFile.file_info.id

\* C12: only the first file is selected automatically: the first file of a
\* drop made while uploadedFiles was empty whose upload succeeds becomes
\* selectedFile, with its preview_data and statistics; the success of a later
\* file of the same drop, and of any file of a drop made while uploadedFiles
\* was not empty, leaves selectedFile, originalData and statistics unchanged.
C12_OnlyFirstFileAutoSelected ==
    [][ \A d \in 1..Len(drops) :
            UploadSuccess(d)
            => LET newFile == uploadedFiles'[Len(uploadedFiles')]
               IN  IF drops[d].first /\ drops[d].stored = 0
                     THEN /\ selectedFile' = newFile
                          /\ originalData' = newFile.preview_data
                          /\ statistics' = newFile.statistics
                     ELSE UNCHANGED <<selectedFile, originalData, statistics>>
      ]_vars

\* C13: deleting another file does not disturb the selection: when a delete
\* of id completes successfully while a file with another id is selected,
\* selectedFile, originalData, statistics, cleanedData and cleanedStatistics
\* are unchanged.
C13_DeleteOfOtherFileKeepsSelection ==
    [][ \A req \in deleteRequests :
            (/\ deleteFileSuccess(req)
             /\ selectedFile # null
             /\ selectedFile.file_info.id # req.fileId)
            => UNCHANGED <<selectedFile, originalData, statistics,
                           cleanedData, cleanedStatistics>> ]_vars

\* C14: a failed upload affects only its own file: the failure of the upload
\* of a file of a drop leaves uploadedFiles, selectedFile, originalData and
\* statistics unchanged; while files of the drop remain, the drop goes on
\* with them in their order and no other drop is touched; after the last
\* file of the drop isUploading is false.
C14_FailedUploadAffectsOnlyItsFile ==
    [][ \A d \in 1..Len(drops) :
            UploadFailure(d)
            => /\ UNCHANGED <<uploadedFiles, selectedFile, originalData, statistics>>
               /\ IF Len(drops[d].queue) > 1
                    THEN /\ Len(drops') = Len(drops)
                         /\ drops'[d].queue = Tail(drops[d].queue)
                         /\ \A e \in 1..Len(drops) : e # d => drops'[e] = drops[e]
                    ELSE /\ isUploading' = FALSE
                         /\ drops' = RemoveAt(drops, d) ]_vars

\* reached: the upload of the first file of a drop has failed, nothing is
\* stored or selected, and the second file of the drop is being uploaded
C14_Witness ==
    /\ lastAlert = "Upload failed"
    /\ uploadedFiles = <<>>
    /\ selectedFile = null
    /\ isUploading
    /\ Len(drops) = 1
    /\ drops[1].stored = 0
    /\ Len(drops[1].queue) = 1
    /\ nextId = 1

\* C15: a failed delete changes nothing: the handling of a failed delete
\* request leaves uploadedFiles, selectedFile, originalData, statistics,
\* cleanedData and cleanedStatistics unchanged.
C15_FailedDeleteChangesNothing ==
    [][ \A req \in deleteRequests :
            deleteFileFailure(req)
            => UNCHANGED <<uploadedFiles, selectedFile, originalData, statistics,
                           cleanedData, cleanedStatistics>> ]_vars

\* reached: a delete has just failed; the file list, the selection and a
\* cleaned result are still there
C15_Witness ==
    /\ lastAlert = "Delete operation failed"
    /\ deleteRequests = {}
    /\ selectedFile # null
    /\ selectedFile \in Range(uploadedFiles)
    /\ originalData = selectedFile.preview_data
    /\ cleanedData # null
    /\ cleanedStatistics # null

\* C16: cleaning is mutually exclusive and its flag is exact: isCleaning is
\* true if and only if a clean request is in flight, and at most one clean
\* request is in flight; so once the request has its response or its error
\* isCleaning is false again.
C16_IsCleaningExact ==
    /\ isCleaning <=> (cleanRequests # <<>>)
    /\ Len(cleanRequests) <= 1

\* reached: an earlier clean has completed and shown its result, and the
\* next clean request is in flight
C16_Witness ==
    /\ isCleaning
    /\ Len(cleanRequests) = 1
    /\ cleanRequests[1].sent.cleanedData # null
    /\ cleanedData # null

\* C17: isUploading reflects uploads in progress: whenever an upload request
\* of a drop is in flight or a file waits in a drop's loop, isUploading is
\* true.
C17_IsUploadingWhileUploadsPending ==
    PendingUploads > 0 => isUploading

\* the keys of the downloads in flight
KeysInFlight == {downloadRequests[i].downloadKey : i \in 1..Len(downloadRequests)}

\* C18: the download loading flag is exact per key: downloadInProgress[key]
\* is true if and only if a download started with that key is in flight.
C18_DownloadFlagExact ==
    \A key \in DOMAIN downloadInProgress \cup KeysInFlight :
        isLoading(key) <=> key \in KeysInFlight

\* C19: a success indication is ended only by its own timer.  The timers
\* have one delay and fire in the order they were set, and cleaningComplete,
\* when true, was set by the last successful clean, whose timer is the
\* newest pending: a timer that resets cleaningComplete from true is the
\* only timer pending.
C19_OnlyOwnTimerEndsIndication ==
    [][ (TimerFires /\ cleaningComplete) => timers = 1 ]_vars

\* C20: column renames address the selected file: in every clean request
\* every key of options.column_renames is a column of the file the request
\* is sent for, and every value is a non-empty new name.
C20_RenamesAddressRequestedFile ==
    \A r \in 1..Len(cleanRequests) :
        LET request == cleanRequests[r].request
            renames == request.options.column_renames
        IN  \A oldName \in DOMAIN renames :
                /\ oldName \in Columns(request.file_id)
                /\ renames[oldName] # ""

\* C21: the original preview matches the selection: when selectedFile is
\* null, originalData and statistics are null; otherwise originalData is
\* selectedFile.preview_data and statistics is selectedFile.statistics.
C21_OriginalPreviewMatchesSelection ==
    IF selectedFile = null
      THEN originalData = null /\ statistics = null
      ELSE /\ originalData = selectedFile.preview_data
           /\ statistics = selectedFile.statistics

\* reached: the second file has been selected while a clean of the first is
\* in flight, the first file has been deleted, and the preview shown is
\* that of the second
C21_Witness ==
    /\ selectedFile # null
    /\ selectedFile.file_info.id = 2
    /\ originalData = selectedFile.preview_data
    /\ statistics = selectedFile.statistics
    /\ uploadedFiles = <<selectedFile>>
    /\ cleanRequests # <<>>
    /\ cleanRequests[1].request.file_id = 1

=============================================================================
